---- MODULE Spec2Model ----
(***************************************************************************)
(* Model of the Riyadh urban data scraper.                                 *)
(*                                                                         *)
(*   src/data_downloader.py  the resumable asynchronous harvester:         *)
(*       resume setup, fetch_parcel (semaphore, retry loop), main          *)
(*       (as_completed loop, chunked flush to OUTPUT_CSV).                 *)
(*   src/tile_downloader.py  the tile enumeration that writes the entity   *)
(*       file: tile grid, process_tile, collect / drop_duplicates / save.  *)
(*                                                                         *)
(* Spec     is the harvester over a life of the output file: any number of *)
(*          runs, each of which may be interrupted between two steps.      *)
(* FairSpec is one uninterrupted execution of the harvester under the      *)
(*          scheduling of the event loop.                                  *)
(* FetchSpec is one call of fetch_parcel, statement by statement, with     *)
(*          rows as dicts and responses of any status and JSON shape.      *)
(* TileSpec is one execution of the tile enumeration script.               *)
(* ProjSpec applies lonlat_to_tile and tile_coords_to_lonlat to positions. *)
(***************************************************************************)
EXTENDS Integers, Sequences, FiniteSets, TLC

VARIABLES
    \* ---- data_downloader.py ----
    input,           \* INPUT_CSV: the rows the run reads
    file,            \* OUTPUT_CSV on disk: [exists, lines]
    pc,              \* position of the harvester process
    processed_ids,   \* set of parcel_objectid read back from OUTPUT_CSV
    write_header,    \* module-level flag
    parcels_to_do,   \* the work list (sequence of input rows)
    task,            \* per entity: the fetch_parcel coroutine
    permits,         \* value of asyncio.Semaphore(CONCURRENT_LIMIT)
    done,            \* as_completed's queue of finished tasks
    results_buffer,  \* main's buffer of rows
    \* ---- history of the harvester (what the claims speak about) ----
    startFile,       \* OUTPUT_CSV as the current run found it
    flushes,         \* number of to_csv calls of the current run
    hdrWrites,       \* every header write: [start, first]
    written,         \* per entity: fetch operations whose rows were flushed
    \* ---- tile_downloader.py ----
    bbox,            \* the two corners of the bounding box: [nw, se]
    tiles,           \* the grid, in submission order
    tstate,          \* per tile index: "queued" | "running" | "done"
    tfailed,         \* per tile index: its request or its decoding failed (history)
    results,         \* per tile index: the list process_tile returned
    tpc,             \* position of the tile script
    entityFile,      \* CSV_FILE: [exists, rows]
    \* ---- the projection pair of tile_downloader.py, applied to a position ----
    position,        \* a position, in global pixel units
    ppc,             \* "off" | "start" | "forward" | "inverse"
    forward,         \* [tile, px, py]: what the forward projection assigns
    inverse,         \* what tile_coords_to_lonlat returns for it
    \* ---- one fetch_parcel call of data_downloader.py, statement by statement ----
    row,             \* the input row of the call
    fpc,             \* "off" | "start" | "request" | "sleep" | "returned"
    fattempt,        \* the loop variable `attempt`
    base_row,        \* the dict base_row
    generated_rows,  \* the list generated_rows
    response,        \* what the latest attempt received (history)
    slept            \* argument of the latest asyncio.sleep (history)

hvars == <<input, file, pc, processed_ids, write_header, parcels_to_do,
           task, permits, done, results_buffer, startFile, flushes, hdrWrites,
           written>>
tvars == <<bbox, tiles, tstate, tfailed, results, tpc, entityFile>>
pvars == <<position, ppc, forward, inverse>>
fvars == <<row, fpc, fattempt, base_row, generated_rows, response, slept>>
vars == <<hvars, tvars, pvars, fvars>>

(***************************************************************************)
(* Bounds of the model and scaled program constants.                       *)
(***************************************************************************)
NumEntities == 2        \* rows of INPUT_CSV that carry a parcel_objectid
MaxFanout == 2          \* longest result list the API returns
CONCURRENT_LIMIT == 1   \* 40 in the source
SAVE_EVERY == 2         \* 1000 in the source
MAX_RETRIES == 2        \* 5 in the source
MaxUnreadableLines == 2 \* an unreadable output is rerun while it is this short
MaxTileX == 1           \* tile columns 0..MaxTileX hold the bounding box
MAX_WORKERS == 2        \* 8 in the source
EXTENT == 4096

NaN == 0                \* pandas' missing value
Ids == 1..NumEntities

Range(s) == {s[i] : i \in 1..Len(s)}

(***************************************************************************)
(* OUTPUT_CSV.  A file is a sequence of lines; a line is the header        *)
(* (FINAL_COLUMNS), a data row, or text that is neither.                   *)
(***************************************************************************)
HeaderLine == [kind |-> "header", oid |-> NaN, rule |-> NaN, status |-> ""]
JunkLine   == [kind |-> "junk",   oid |-> NaN, rule |-> NaN, status |-> ""]
DataRow(oid, rule, status) ==
    [kind |-> "row", oid |-> oid, rule |-> rule, status |-> status]

NoFile == [exists |-> FALSE, lines |-> <<>>]
FileOf(lines) == [exists |-> TRUE, lines |-> lines]

\* os.path.getsize(OUTPUT_CSV)
getsize(f) == Len(f.lines)

\* pd.read_csv(OUTPUT_CSV, usecols=['parcel_objectid'], dtype=str): the first
\* line is taken as the header; an empty file or a first line without the
\* column raises.
\* (variant: a first line without the column is not noticed)
ReadCsvRaisesOnlyWhenEmpty(f) == Len(f.lines) = 0
ReadCsvRaises(f) ==
    \/ Len(f.lines) = 0
    \/ Head(f.lines).kind # "header"

\* the parcel_objectid column of the lines after the first; a later line
\* that is no data row is read as a row whose value is no entity id
ReadCsvIds(f) ==
    {f.lines[i].oid : i \in {j \in 2..Len(f.lines) : f.lines[j].kind = "row"}}

\* df.to_csv(OUTPUT_CSV, mode='w'): truncate, header, rows
ToCsvW(f, rows) == FileOf(<<HeaderLine>> \o rows)
\* df.to_csv(OUTPUT_CSV, mode='a', header=False): create if missing, append
\* (variant: the file is opened for writing instead of appending)
ToCsvAOverwrites(f, rows) == FileOf(rows)
ToCsvA(f, rows) == FileOf(f.lines \o rows)

(***************************************************************************)
(* INPUT_CSV: n rows with distinct parcel_objectid and one row without.    *)
(***************************************************************************)
InputCsv(n) == [i \in 1..(n + 1) |->
                  [parcel_objectid |-> IF i <= n THEN i ELSE NaN]]

RECURSIVE FilterSeq(_, _)
FilterSeq(s, keep) ==
    IF s = <<>> THEN <<>>
    ELSE IF Head(s).parcel_objectid \in keep
         THEN <<Head(s)>> \o FilterSeq(Tail(s), keep)
         ELSE FilterSeq(Tail(s), keep)

\* pd.read_csv(INPUT_CSV).dropna(subset=['parcel_objectid'])
df_input == FilterSeq(input, Ids)

\* df_input[~df_input['parcel_objectid'].isin(processed_ids)]
\* (variant: the mask is not applied)
ResumeFilterKeepsAll(df, processed) == df
ResumeFilter(df, processed) == FilterSeq(df, Ids \ processed)

\* resume setup: <<processed_ids, write_header>> for the file found
\* (variant: the except branch leaves write_header alone)
ResumeSetupNoSizeCheck(f) ==
    IF f.exists /\ ~ReadCsvRaises(f) THEN <<ReadCsvIds(f), FALSE>> ELSE <<{}, TRUE>>
ResumeSetup(f) ==
    IF f.exists
    THEN IF ~ReadCsvRaises(f)
         THEN <<ReadCsvIds(f), FALSE>>
         ELSE IF f.exists /\ getsize(f) > 0 THEN <<{}, FALSE>> ELSE <<{}, TRUE>>
    ELSE <<{}, TRUE>>

\* what the run found at OUTPUT_CSV
FileKind(f) ==
    IF ~f.exists THEN "absent"
    ELSE IF f.lines = <<>> THEN "empty"
    ELSE IF Head(f.lines).kind # "header" THEN "unreadable"
    ELSE IF Len(f.lines) = 1 THEN "header-only"
    ELSE "readable"

(***************************************************************************)
(* fetch_parcel: one coroutine per row of parcels_to_do.                   *)
(*   st: "none" (no candidate) | "waiting" (for the semaphore) |           *)
(*       "inflight" (session.get issued) | "sleeping" (asyncio.sleep) |    *)
(*       "done" (returned, queued for main) | "consumed"                   *)
(*   attempt: the loop variable; rows: generated_rows; delay: the sleep    *)
(*   only429: every response so far was HTTP 429 (history)                 *)
(***************************************************************************)
IdleTask == [st |-> "none", attempt |-> 0, rows |-> <<>>, delay |-> 0, only429 |-> TRUE]
WaitingTask == [IdleTask EXCEPT !.st = "waiting"]

\* outcomes of one attempt: the status of the response (or an exception
\* raised by session.get) and, for 200, the body
Outcome(code, body, n) == [code |-> code, body |-> body, n |-> n]
Outcomes ==
    {Outcome("200", "unparseable", 0), Outcome("200", "empty", 0),
     Outcome("404", "", 0), Outcome("429", "", 0),
     Outcome("other", "", 0), Outcome("exception", "", 0)}
    \cup {Outcome("200", "list", k) : k \in 1..MaxFanout}

\* the rows of a result list of k elements: rule ids 1..k
SuccessRows(e, k) == [i \in 1..k |-> DataRow(e, i, "SUCCESS")]
BaseRow(e, status) == DataRow(e, NaN, status)

\* range(1, MAX_RETRIES + 1) has another value after `attempt`
\* (variant: range(1, MAX_RETRIES + 2))
HasNextAttemptOneMore(attempt) == attempt <= MAX_RETRIES
HasNextAttempt(attempt) == attempt < MAX_RETRIES

\* asyncio.Semaphore: acquire passes while the value is positive
\* (variant: acquire never blocks)
SemAcquireOkNoGate(p) == TRUE
SemAcquireOk(p) == p > 0
\* (variant: the slot is not given back)
SemReleaseKeeps(p) == p
SemRelease(p) == p + 1

\* rows returned once the loop is exhausted
\* (variant: nothing is appended for the failure)
ExhaustedRowsDropped(e, rows) == rows
ExhaustedRows(e, rows) == Append(rows, BaseRow(e, "FAILED_AFTER_RETRIES"))

\* rows returned by a terminal response
TerminalRows(e, rows, o) ==
    CASE o.code = "200" /\ o.body = "unparseable" -> Append(rows, BaseRow(e, "JSON_ERROR"))
      [] o.code = "200" /\ o.body = "list"        -> rows \o SuccessRows(e, o.n)
      [] o.code = "200" /\ o.body = "empty"       -> Append(rows, BaseRow(e, "NO_DATA_IN_LIST"))
      [] o.code = "404"                           -> Append(rows, BaseRow(e, "NOT_FOUND"))

IsTerminal(o) == o.code \in {"200", "404"}

\* asyncio.sleep argument after a response that is retried
BackoffDelay(o, attempt) == IF o.code = "429" THEN 2 * attempt ELSE 1

Candidates == {parcels_to_do[i].parcel_objectid : i \in 1..Len(parcels_to_do)}
Holders == {e \in Ids : task[e].st \in {"inflight", "sleeping"}}

(***************************************************************************)
(* ChunkedSink: the flush in main.                                         *)
(***************************************************************************)
\* (variant: > instead of >=)
FlushDueLate(buf) == Len(buf) > SAVE_EVERY
FlushDue(buf) == Len(buf) >= SAVE_EVERY

\* the to_csv call of a flush
\* (variant: every flush uses mode='w')
FlushTruncates(f, wh, buf) == ToCsvW(f, buf)
Flush(f, wh, buf) == IF wh THEN ToCsvW(f, buf) ELSE ToCsvA(f, buf)

(***************************************************************************)
(* fetch_parcel statement by statement: rows are dicts (functions from     *)
(* column names), the response of an attempt carries the parsed payload.   *)
(* A value is a scalar of the payload or of the input, or the text that    *)
(* json.dumps made of a bucket (the pairs it serialised, in order).        *)
(***************************************************************************)
FINAL_COLUMNS ==
    <<"parcel_id", "parcel_objectid", "lon", "lat", "rule_id",
      "zoningId", "zoningColor", "zoningGroup", "landuse", "description",
      "name", "coloring", "coloringDescription", "maxBuildingCoefficient",
      "maxBuildingHeight", "maxParcelCoverage", "maxRuleDepth",
      "mainStreetsSetback", "secondaryStreetsSetback", "sideRearSetback",
      "api_status", "extra_data">>
KNOWN_COLUMNS_SET == Range(FINAL_COLUMNS)

Scalar(v) == [json |-> FALSE, s |-> v, items |-> <<>>]
\* json.dumps(extra_data_bucket, ensure_ascii=False)
JsonDumps(bucket) == [json |-> TRUE, s |-> "", items |-> bucket]
\* json.loads of a value of the extra_data column
JsonLoads(v) == IF v.json THEN Range(v.items) ELSE {}

\* d[k] = v on a dict
Put(d, k, v) == [x \in (DOMAIN d) \cup {k} |-> IF x = k THEN v ELSE d[x]]

\* the rows of INPUT_CSV a call is made for: with and without a column that
\* is no output column
InputRow(extra) ==
    [k \in {"parcel_id", "parcel_objectid", "lon", "lat"} \cup extra |->
        CASE k = "parcel_id"       -> Scalar("A1")
          [] k = "parcel_objectid" -> Scalar("7")
          [] k = "lon"             -> Scalar("46.7")
          [] k = "lat"             -> Scalar("24.7")
          [] OTHER                 -> Scalar("north")]
FetchRows == {InputRow({}), InputRow({"district"})}

\* base_row = {k: row.get(k) for k in row if k in KNOWN_COLUMNS_SET}
BaseRowOf(r) == [k \in (DOMAIN r) \cap KNOWN_COLUMNS_SET |-> r[k]]

\* an element of the result list: a JSON object (its pairs, in order) or a
\* JSON value of another type
Elem(items) == [dict |-> TRUE, items |-> items]
NotADict == [dict |-> FALSE, items |-> <<>>]
Elements ==
    {Elem(<< <<"id", "r1">>, <<"landuse", "residential">>, <<"newField", "x">> >>),
     Elem(<< <<"id", "r3">>, <<"rule_id", "r4">> >>),
     Elem(<< <<"extra_data", "e">>, <<"newField", "y">> >>),
     Elem(<< <<"parcel_objectid", "9">>, <<"api_status", "X">> >>),
     NotADict}

\* what an attempt receives.  code: the HTTP status, or "exception" when
\* session.get raises (timeout, connection fault).  body, for 200:
\*   "unparseable"   response.json() raises a decode error
\*   "read_timeout"  the timeout or a connection fault strikes while
\*                   response.json() reads the body
\*   "not_dict"      the JSON value is no object
\*   "no_data_key"   an object without the key data
\*   "data_not_list" an object whose data is a non-empty string or object
\*   "list"          an object whose data is the list `data`
FetchResponse(code, body, data) == [code |-> code, body |-> body, data |-> data]
NoResponse == FetchResponse("", "", <<>>)
ResultLists == UNION {[1..n -> Elements] : n \in 0..MaxFanout}
FetchResponses ==
    {FetchResponse(c, "", <<>>) : c \in {"404", "429", "other", "exception"}}
    \cup {FetchResponse("200", b, <<>>) :
            b \in {"unparseable", "read_timeout", "not_dict", "no_data_key",
                   "data_not_list"}}
    \cup {FetchResponse("200", "list", d) : d \in ResultLists}

TargetKey(key) == IF key = "id" THEN "rule_id" ELSE key

\* lines 104-109, the known keys: new_row[target_key] = value
RECURSIVE CopyKnown(_, _)
CopyKnown(new_row, items) ==
    IF items = <<>> THEN new_row
    ELSE LET key == Head(items)[1]
             value == Head(items)[2]
             target_key == TargetKey(key)
         IN CopyKnown(IF target_key \in KNOWN_COLUMNS_SET
                      THEN Put(new_row, target_key, Scalar(value))
                      ELSE new_row,
                      Tail(items))

\* lines 104-109, the other keys: extra_data_bucket[key] = value
RECURSIVE ExtraBucket(_)
ExtraBucket(items) ==
    IF items = <<>> THEN <<>>
    ELSE IF TargetKey(Head(items)[1]) \in KNOWN_COLUMNS_SET
         THEN ExtraBucket(Tail(items))
         ELSE <<Head(items)>> \o ExtraBucket(Tail(items))

\* lines 101-115: the row made of one element
MapElement(base, info) ==
    LET copied == CopyKnown(base, info.items)
        extra_data_bucket == ExtraBucket(info.items)
        with_extra == IF extra_data_bucket # <<>>
                      THEN Put(copied, "extra_data", JsonDumps(extra_data_bucket))
                      ELSE copied
    IN Put(with_extra, "api_status", Scalar("SUCCESS"))

\* the loop of line 100 over data_list: the rows it appends, and whether
\* info.items() raised on an element that is no dict
RECURSIVE MapElements(_, _)
MapElements(base, data) ==
    IF data = <<>> THEN [rows |-> <<>>, raised |-> FALSE]
    ELSE IF ~Head(data).dict THEN [rows |-> <<>>, raised |-> TRUE]
    ELSE LET rest == MapElements(base, Tail(data))
         IN [rows |-> <<MapElement(base, Head(data))>> \o rest.rows,
             raised |-> rest.raised]

\* base_row['api_status'] = status; generated_rows.append(base_row)
WithStatus(base, status) == Put(base, "api_status", Scalar(status))

\* one pass through the body of the retry loop for the response r:
\* what generated_rows becomes and whether the call returns or sleeps
AttemptStep(base, rows, r, attempt) ==
    LET ret(status) == [rows |-> Append(rows, WithStatus(base, status)),
                        next |-> "return", delay |-> 0]
        retry(rs)   == [rows |-> rs, next |-> "sleep",
                        delay |-> BackoffDelay(r, attempt)]
    IN CASE r.code = "200" /\ r.body \in {"unparseable", "read_timeout"} ->
                ret("JSON_ERROR")
         [] r.code = "200" /\ r.body = "not_dict" -> retry(rows)
         [] r.code = "200" /\ r.body \in {"no_data_key", "data_not_list"} ->
                ret("NO_DATA_IN_LIST")
         [] r.code = "200" /\ r.body = "list" /\ r.data = <<>> ->
                ret("NO_DATA_IN_LIST")
         [] r.code = "200" /\ r.body = "list" /\ r.data # <<>> ->
                LET m == MapElements(base, r.data)
                IN IF m.raised THEN retry(rows \o m.rows)
                   ELSE [rows |-> rows \o m.rows, next |-> "return", delay |-> 0]
         [] r.code = "404" -> ret("NOT_FOUND")
         [] OTHER -> retry(rows)

(***************************************************************************)
(* Initial state of the harvester: OUTPUT_CSV is missing, empty,           *)
(* header-only, or unreadable (its first line is no header: with or        *)
(* without a row that an earlier run appended).                            *)
(***************************************************************************)
InitialFiles ==
    {NoFile, FileOf(<<>>), FileOf(<<HeaderLine>>), FileOf(<<JunkLine>>),
     FileOf(<<JunkLine, DataRow(1, NaN, "NOT_FOUND")>>)}

HarvesterIdle ==
    /\ pc = "idle"
    /\ processed_ids = {}
    /\ write_header = TRUE
    /\ parcels_to_do = <<>>
    /\ task = [e \in Ids |-> IdleTask]
    /\ permits = 0
    /\ done = <<>>
    /\ results_buffer = <<>>
    /\ startFile = NoFile
    /\ flushes = 0
    /\ hdrWrites = {}
    /\ written = [e \in Ids |-> 0]

TileIdle ==
    /\ bbox = <<>>
    /\ tiles = <<>>
    /\ tstate = <<>>
    /\ tfailed = <<>>
    /\ results = <<>>
    /\ tpc = "off"
    /\ entityFile = [exists |-> FALSE, rows |-> <<>>]

NoForward == [tile |-> <<0, 0>>, px |-> 0, py |-> 0]

ProjIdle ==
    /\ position = <<0, 0>>
    /\ ppc = "off"
    /\ forward = NoForward
    /\ inverse = <<0, 0>>

FetchIdle ==
    /\ row = InputRow({})
    /\ fpc = "off"
    /\ fattempt = 0
    /\ base_row = BaseRowOf(InputRow({}))
    /\ generated_rows = <<>>
    /\ response = NoResponse
    /\ slept = 0

Init ==
    /\ input = InputCsv(NumEntities)
    /\ file \in InitialFiles
    /\ HarvesterIdle
    /\ TileIdle
    /\ ProjIdle
    /\ FetchIdle

(***************************************************************************)
(* Resume setup (module level) followed by main's task creation.           *)
(***************************************************************************)
StartRun ==
    /\ pc \in {"idle", "interrupted", "complete", "exited"}
    /\ FileKind(file) = "unreadable" => Len(file.lines) <= MaxUnreadableLines
    /\ LET setup == ResumeSetup(file)
           todo  == ResumeFilter(df_input, setup[1])
           cand  == {todo[i].parcel_objectid : i \in 1..Len(todo)}
       IN /\ processed_ids' = setup[1]
          /\ write_header' = setup[2]
          /\ parcels_to_do' = todo
          /\ pc' = IF Len(todo) = 0 THEN "exited" ELSE "running"
          /\ task' = [e \in Ids |-> IF e \in cand THEN WaitingTask ELSE IdleTask]
          /\ permits' = CONCURRENT_LIMIT
    /\ done' = <<>>
    /\ results_buffer' = <<>>
    /\ startFile' = file
    /\ flushes' = 0
    /\ UNCHANGED <<input, file, hdrWrites, written>>
    /\ UNCHANGED <<tvars, pvars, fvars>>

\* async with semaphore: ... first session.get
Acquire(e) ==
    /\ pc = "running"
    /\ task[e].st = "waiting"
    /\ SemAcquireOk(permits)
    /\ permits' = permits - 1
    /\ task' = [task EXCEPT ![e].st = "inflight", ![e].attempt = 1]
    /\ UNCHANGED <<input, file, pc, processed_ids, write_header, parcels_to_do,
                   done, results_buffer, startFile, flushes, hdrWrites, written>>
    /\ UNCHANGED <<tvars, pvars, fvars>>

\* fetch_parcel returns `rows`: the semaphore is released, the task is done
Return(e, rows, only) ==
    /\ task' = [task EXCEPT ![e].st = "done", ![e].rows = rows,
                            ![e].delay = 0, ![e].only429 = only]
    /\ permits' = SemRelease(permits)
    /\ done' = Append(done, e)

\* the response of the attempt in flight (or the exception it raises)
Respond(e, o) ==
    /\ o \in Outcomes
    /\ pc = "running"
    /\ task[e].st = "inflight"
    /\ IF IsTerminal(o)
       THEN Return(e, TerminalRows(e, task[e].rows, o), FALSE)
       ELSE /\ task' = [task EXCEPT ![e].st = "sleeping",
                                    ![e].delay = BackoffDelay(o, task[e].attempt),
                                    ![e].only429 = task[e].only429 /\ o.code = "429"]
            /\ UNCHANGED <<permits, done>>
    /\ UNCHANGED <<input, file, pc, processed_ids, write_header, parcels_to_do,
                   results_buffer, startFile, flushes, hdrWrites, written>>
    /\ UNCHANGED <<tvars, pvars, fvars>>

\* the sleep ends: `continue`, i.e. the next attempt or the end of the loop
Wake(e) ==
    /\ pc = "running"
    /\ task[e].st = "sleeping"
    /\ IF HasNextAttempt(task[e].attempt)
       THEN /\ task' = [task EXCEPT ![e].st = "inflight", ![e].delay = 0,
                                    ![e].attempt = task[e].attempt + 1]
            /\ UNCHANGED <<permits, done>>
       ELSE Return(e, ExhaustedRows(e, task[e].rows), task[e].only429)
    /\ UNCHANGED <<input, file, pc, processed_ids, write_header, parcels_to_do,
                   results_buffer, startFile, flushes, hdrWrites, written>>
    /\ UNCHANGED <<tvars, pvars, fvars>>

(***************************************************************************)
(* main: one iteration of `for f in as_completed(tasks)`; when it was the  *)
(* last one, the flush after the loop follows without suspension.          *)
(***************************************************************************)
HdrWrite(wh, first) == IF wh THEN {[start |-> FileKind(startFile), first |-> first]} ELSE {}

\* rows returned by the fetch operations of the run that have completed
Produced == UNION {Range(task[e].rows) : e \in {c \in Ids : task[c].st \in {"done", "consumed"}}}

MainStep ==
    /\ pc = "running"
    /\ done # <<>>
    /\ LET e    == Head(done)
           buf1 == results_buffer \o task[e].rows
           due  == FlushDue(buf1)
           f1   == IF due THEN Flush(file, write_header, buf1) ELSE file
           h1   == IF due THEN HdrWrite(write_header, flushes = 0) ELSE {}
           wh1  == IF due THEN FALSE ELSE write_header
           buf2 == IF due THEN <<>> ELSE buf1
           n1   == IF due THEN flushes + 1 ELSE flushes
           last == \A c \in Candidates \ {e} : task[c].st = "consumed"
           fin  == last /\ buf2 # <<>>
           out  == IF due \/ fin THEN {buf1[i].oid : i \in 1..Len(buf1)} ELSE {}
       IN /\ task' = [task EXCEPT ![e] = [IdleTask EXCEPT !.st = "consumed",
                                                         !.rows = task[e].rows]]
          /\ done' = Tail(done)
          /\ file' = IF fin THEN Flush(f1, wh1, buf2) ELSE f1
          /\ hdrWrites' = hdrWrites \cup h1 \cup
                            (IF fin THEN HdrWrite(wh1, n1 = 0) ELSE {})
          /\ flushes' = IF fin THEN n1 + 1 ELSE n1
          /\ written' = [c \in Ids |-> IF c \in out THEN written[c] + 1 ELSE written[c]]
          /\ write_header' = wh1
          /\ results_buffer' = buf2
          /\ pc' = IF last THEN "complete" ELSE "running"
    /\ UNCHANGED <<input, processed_ids, parcels_to_do, permits, startFile>>
    /\ UNCHANGED <<tvars, pvars, fvars>>

\* the process is stopped between two steps: memory is lost, the file stays
Interrupt ==
    /\ pc = "running"
    /\ pc' = "interrupted"
    /\ processed_ids' = {}
    /\ write_header' = TRUE
    /\ parcels_to_do' = <<>>
    /\ task' = [e \in Ids |-> IdleTask]
    /\ permits' = 0
    /\ done' = <<>>
    /\ results_buffer' = <<>>
    /\ startFile' = NoFile
    /\ flushes' = 0
    /\ UNCHANGED <<input, file, hdrWrites, written>>
    /\ UNCHANGED <<tvars, pvars, fvars>>

(***************************************************************************)
(* tile_downloader.py.  A position is a pair of global pixel coordinates   *)
(* (EXTENT units per tile, y growing southwards), the integer image of     *)
(* (lon, lat) under the Web Mercator projection at zoom ZOOM.              *)
(***************************************************************************)
TileYs == {0, 1}

\* lonlat_to_tile: the tile that holds a position
lonlat_to_tile(pos) == <<pos[1] \div EXTENT, pos[2] \div EXTENT>>

\* tile_coords_to_lonlat: the position of pixel (px, py) of tile (x, y),
\* as <<x_frac, y_frac>> in pixel units
tile_coords_to_lonlat(px, py, tile_x, tile_y) ==
    LET fx == px
        fy == EXTENT - py
    IN <<tile_x * EXTENT + fx, tile_y * EXTENT + fy>>

\* (variant: the first corner is taken as the start of the range)
MinOfFirst(a, b) == a
Min(a, b) == IF a <= b THEN a ELSE b
Max(a, b) == IF a >= b THEN a ELSE b

\* range(a, b + 1) as a sequence
RangeSeq(a, b) == [i \in 1..(b - a + 1) |-> a + i - 1]

RECURSIVE Flatten(_)
Flatten(ss) == IF ss = <<>> THEN <<>> ELSE Head(ss) \o Flatten(Tail(ss))

\* tiles = [(x, y) for x in range(x_start, x_end + 1)
\*                 for y in range(y_start, y_end + 1)]
TileGrid(nw, se) ==
    LET lo == lonlat_to_tile(nw)
        hi == lonlat_to_tile(se)
        x_start == Min(lo[1], hi[1])
        x_end   == Max(lo[1], hi[1])
        y_start == Min(lo[2], hi[2])
        y_end   == Max(lo[2], hi[2])
        xs == RangeSeq(x_start, x_end)
        ys == RangeSeq(y_start, y_end)
    IN Flatten([i \in 1..Len(xs) |-> [j \in 1..Len(ys) |-> <<xs[i], ys[j]>>]])

\* a decoded feature: its properties, its geometry and the centroid shapely
\* computes for it
Feature(pid, id, oid, OBJECTID, geom, cx, cy) ==
    [parcel_id |-> pid, id |-> id, parcel_objectid |-> oid,
     OBJECTID |-> OBJECTID, geom |-> geom, cx |-> cx, cy |-> cy]

\* a or b, on values of which NaN (None) is the falsy one
PyOr(a, b) == IF a # NaN THEN a ELSE b

\* what a tile request can end with: a status that is not 200, a timeout,
\* a payload that does not decode, or the features of the first layer
TileOutcomes ==
    {[kind |-> "non200", features |-> <<>>],
     [kind |-> "timeout", features |-> <<>>],
     [kind |-> "corrupt", features |-> <<>>],
     [kind |-> "ok", features |-> <<>>],
     [kind |-> "ok", features |-> <<Feature(1, NaN, 7, NaN, "polygon", 16, 32)>>],
     [kind |-> "ok", features |-> <<Feature(NaN, 2, NaN, 7, "polygon", 64, 8),
                                    Feature(3, NaN, NaN, NaN, "polygon", 8, 8)>>],
     [kind |-> "ok", features |-> <<Feature(1, NaN, 8, NaN, "polygon", 16, 32),
                                    Feature(4, NaN, 9, NaN, "invalid", 0, 0)>>]}

\* the loop over layer.get("features") of process_tile
RECURSIVE Centroids(_, _, _)
Centroids(features, x, y) ==
    IF features = <<>> THEN <<>>
    ELSE LET f == Head(features)
             parcel_id == PyOr(f.parcel_id, f.id)
             parcel_objectid == PyOr(f.parcel_objectid, f.OBJECTID)
             ll == tile_coords_to_lonlat(f.cx, f.cy, x, y)
             rest == Centroids(Tail(features), x, y)
         IN IF parcel_id # NaN /\ parcel_objectid # NaN /\ f.geom = "polygon"
            THEN <<[parcel_id |-> parcel_id, parcel_objectid |-> parcel_objectid,
                    lon |-> ll[1], lat |-> ll[2]]>> \o rest
            ELSE rest

\* process_tile((x, y)) for one outcome of the request
process_tile(t, o) ==
    IF o.kind = "ok" THEN Centroids(o.features, t[1], t[2]) ELSE <<>>

\* the outcomes that are a failure of the tile
TileFailures == {"non200", "timeout", "corrupt"}

\* the except clauses of process_tile: requests.exceptions.Timeout, then
\* Exception, so whatever the request or the decoder raises is caught
\* (variant: only the Timeout clause)
CaughtOnlyTimeout(o) == o.kind # "corrupt"
Caught(o) == TRUE

\* DataFrame.drop_duplicates(subset=[key]): the first row of every key stays
RECURSIVE DropDuplicates(_, _)
DropDuplicates(rows, seen) ==
    IF rows = <<>> THEN <<>>
    ELSE IF Head(rows).parcel_id \in seen
         THEN DropDuplicates(Tail(rows), seen)
         ELSE <<Head(rows)>> \o DropDuplicates(Tail(rows), seen \cup {Head(rows).parcel_id})

\* the corners of the bounding box: the middle of a tile each
Corner(tx, ty) == <<tx * EXTENT + EXTENT \div 2, ty * EXTENT + EXTENT \div 2>>
Corners == {Corner(tx, ty) : tx \in 0..MaxTileX, ty \in TileYs}

TileInit ==
    /\ input = InputCsv(NumEntities)
    /\ file = NoFile
    /\ HarvesterIdle
    /\ bbox \in [nw : Corners, se : Corners]
    /\ tiles = <<>>
    /\ tstate = <<>>
    /\ tfailed = <<>>
    /\ results = <<>>
    /\ tpc = "start"
    /\ entityFile = [exists |-> FALSE, rows |-> <<>>]
    /\ ProjIdle
    /\ FetchIdle

\* lines 133-145: the grid; the executor gets every tile
BuildGrid ==
    /\ tpc = "start"
    /\ tiles' = TileGrid(bbox.nw, bbox.se)
    /\ tstate' = [i \in 1..Len(tiles') |-> "queued"]
    /\ tfailed' = [i \in 1..Len(tiles') |-> FALSE]
    /\ results' = [i \in 1..Len(tiles') |-> <<>>]
    /\ tpc' = "mapping"
    /\ UNCHANGED <<bbox, entityFile>>
    /\ UNCHANGED <<hvars, pvars, fvars>>

Running == {i \in 1..Len(tiles) : tstate[i] = "running"}

\* a free worker thread takes the next tile of the queue
StartTile(i) ==
    /\ tpc = "mapping"
    /\ tstate[i] = "queued"
    /\ \A j \in 1..(i - 1) : tstate[j] # "queued"
    /\ Cardinality(Running) < MAX_WORKERS
    /\ tstate' = [tstate EXCEPT ![i] = "running"]
    /\ UNCHANGED <<bbox, tiles, tfailed, results, tpc, entityFile>>
    /\ UNCHANGED <<hvars, pvars, fvars>>

\* process_tile returns; an exception it let through would leave
\* executor.map and end the script
FinishTile(i, o) ==
    /\ tpc = "mapping"
    /\ tstate[i] = "running"
    /\ tstate' = [tstate EXCEPT ![i] = "done"]
    /\ tfailed' = [tfailed EXCEPT ![i] = o.kind \in TileFailures]
    /\ results' = [results EXCEPT ![i] = process_tile(tiles[i], o)]
    /\ tpc' = IF Caught(o) THEN tpc ELSE "aborted"
    /\ UNCHANGED <<bbox, tiles, entityFile>>
    /\ UNCHANGED <<hvars, pvars, fvars>>

\* lines 158-171: collect, drop_duplicates, save
SaveEntities ==
    /\ tpc = "mapping"
    /\ \A i \in 1..Len(tiles) : tstate[i] = "done"
    /\ LET all_centroids == Flatten(results)
           df == DropDuplicates(all_centroids, {})
       IN entityFile' = [exists |-> TRUE, rows |-> df]
    /\ tpc' = "saved"
    /\ UNCHANGED <<bbox, tiles, tstate, tfailed, results>>
    /\ UNCHANGED <<hvars, pvars, fvars>>

TileNext ==
    \/ BuildGrid
    \/ \E i \in 1..Len(tiles) : StartTile(i)
    \/ \E i \in 1..Len(tiles), o \in TileOutcomes : FinishTile(i, o)
    \/ SaveEntities

TileSpec == TileInit /\ [][TileNext]_vars

(***************************************************************************)
(* The projection pair on its own: a position is projected forward to its  *)
(* tile and the pixel offset inside the tile, and tile_coords_to_lonlat is *)
(* applied to that.                                                        *)
(***************************************************************************)
PixelOffsets == {0, 1, EXTENT \div 2, EXTENT - 1}
Positions ==
    {<<tx * EXTENT + ox, ty * EXTENT + oy>> :
        tx \in 0..MaxTileX, ty \in TileYs, ox \in PixelOffsets, oy \in PixelOffsets}

\* the part of the forward projection that int() cuts off, in pixels:
\* the offset from the top-left corner of the tile
PixelOffset(pos) == <<pos[1] % EXTENT, pos[2] % EXTENT>>

ProjInit ==
    /\ input = InputCsv(NumEntities)
    /\ file = NoFile
    /\ HarvesterIdle
    /\ TileIdle
    /\ FetchIdle
    /\ position \in Positions
    /\ ppc = "start"
    /\ forward = NoForward
    /\ inverse = <<0, 0>>

ProjectForward ==
    /\ ppc = "start"
    /\ forward' = [tile |-> lonlat_to_tile(position),
                   px |-> PixelOffset(position)[1],
                   py |-> PixelOffset(position)[2]]
    /\ ppc' = "forward"
    /\ UNCHANGED <<position, inverse>>
    /\ UNCHANGED <<hvars, tvars, fvars>>

ProjectInverse ==
    /\ ppc = "forward"
    /\ inverse' = tile_coords_to_lonlat(forward.px, forward.py,
                                        forward.tile[1], forward.tile[2])
    /\ ppc' = "inverse"
    /\ UNCHANGED <<position, forward>>
    /\ UNCHANGED <<hvars, tvars, fvars>>

ProjNext == ProjectForward \/ ProjectInverse

ProjSpec == ProjInit /\ [][ProjNext]_vars

(***************************************************************************)
(* One call of fetch_parcel, statement by statement, against an API that   *)
(* may answer with any status and any JSON.                                *)
(***************************************************************************)
FetchInit ==
    /\ input = InputCsv(NumEntities)
    /\ file = NoFile
    /\ HarvesterIdle
    /\ TileIdle
    /\ ProjIdle
    /\ row \in FetchRows
    /\ fpc = "start"
    /\ fattempt = 0
    /\ base_row = BaseRowOf(InputRow({}))
    /\ generated_rows = <<>>
    /\ response = NoResponse
    /\ slept = 0

\* lines 77-86: base_row, generated_rows, the first request
FetchEnter ==
    /\ fpc = "start"
    /\ base_row' = BaseRowOf(row)
    /\ generated_rows' = <<>>
    /\ fattempt' = 1
    /\ fpc' = "request"
    /\ UNCHANGED <<row, response, slept>>
    /\ UNCHANGED <<hvars, tvars, pvars>>

\* lines 87-136: the attempt in flight ends with r
FetchRespond(r) ==
    /\ r \in FetchResponses
    /\ fpc = "request"
    /\ LET a == AttemptStep(base_row, generated_rows, r, fattempt)
       IN /\ generated_rows' = a.rows
          /\ fpc' = IF a.next = "return" THEN "returned" ELSE "sleep"
          /\ slept' = IF a.next = "return" THEN slept ELSE a.delay
    /\ response' = r
    /\ UNCHANGED <<row, fattempt, base_row>>
    /\ UNCHANGED <<hvars, tvars, pvars>>

\* the sleep ends: the next request, or lines 138-140 after the last one
FetchWake ==
    /\ fpc = "sleep"
    /\ IF HasNextAttempt(fattempt)
       THEN /\ fattempt' = fattempt + 1
            /\ fpc' = "request"
            /\ response' = NoResponse
            /\ UNCHANGED generated_rows
       ELSE /\ generated_rows' =
                  Append(generated_rows, WithStatus(base_row, "FAILED_AFTER_RETRIES"))
            /\ fpc' = "returned"
            /\ UNCHANGED <<fattempt, response>>
    /\ UNCHANGED <<row, base_row, slept>>
    /\ UNCHANGED <<hvars, tvars, pvars>>

FetchNext ==
    \/ FetchEnter
    \/ \E r \in FetchResponses : FetchRespond(r)
    \/ FetchWake

FetchSpec == FetchInit /\ [][FetchNext]_vars

Next ==
    \/ StartRun
    \/ \E e \in Ids : Acquire(e)
    \/ \E e \in Ids, o \in Outcomes : Respond(e, o)
    \/ \E e \in Ids : Wake(e)
    \/ MainStep
    \/ Interrupt

Spec == Init /\ [][Next]_vars

(***************************************************************************)
(* One execution of the harvester that is not stopped from outside, under  *)
(* the scheduling of the asyncio event loop: a coroutine that can go on    *)
(* goes on (a free semaphore slot is taken by a waiting task, an elapsed   *)
(* sleep wakes its task, main consumes a finished task), and every request *)
(* is answered or raises within its timeout of 20 s.                       *)
(***************************************************************************)
RunNext ==
    \/ (pc = "idle" /\ StartRun)
    \/ \E e \in Ids : Acquire(e)
    \/ \E e \in Ids, o \in Outcomes : Respond(e, o)
    \/ \E e \in Ids : Wake(e)
    \/ MainStep

\* the event loop does not stand still while a step of the run is possible
Fairness == WF_vars(RunNext)

\* the execution finds no output
FairInit ==
    /\ input = InputCsv(NumEntities)
    /\ file = NoFile
    /\ HarvesterIdle
    /\ TileIdle
    /\ ProjIdle
    /\ FetchIdle

FairSpec == FairInit /\ [][RunNext]_vars /\ Fairness

(***************************************************************************)
(* What the claims speak about.                                            *)
(***************************************************************************)
IsPrefix(s, t) == Len(s) <= Len(t) /\ \A i \in 1..Len(s) : s[i] = t[i]

RowIdx(f) == {i \in 1..Len(f.lines) : f.lines[i].kind = "row"}
RowsOfId(f, id) == {i \in RowIdx(f) : f.lines[i].oid = id}
Occurrences(f, r) == Cardinality({i \in 1..Len(f.lines) : f.lines[i] = r})
\* every identifier that a data row of the file carries, readable or not
IdsInFile(f) == {f.lines[i].oid : i \in RowIdx(f)}

InputIds == {input[i].parcel_objectid : i \in 1..Len(input)} \ {NaN}
Statuses == {"SUCCESS", "NO_DATA_IN_LIST", "JSON_ERROR", "NOT_FOUND", "FAILED_AFTER_RETRIES"}
Requested == {e \in Ids : task[e].st \notin {"none", "waiting"}}

RECURSIVE QueuedRows(_)
QueuedRows(q) == IF q = <<>> THEN 0 ELSE Len(task[Head(q)].rows) + QueuedRows(Tail(q))
\* rows of completed fetch operations that are not in the output yet
Uncommitted == Len(results_buffer) + QueuedRows(done)

C2_AdmissionBound ==
    (pc \in {"running", "complete"}) =>
        /\ Cardinality(Holders) <= CONCURRENT_LIMIT
        /\ permits = CONCURRENT_LIMIT - Cardinality(Holders)

\* the gate is full while a candidate waits and the holder is in a backoff
\* delay
C2_Witness ==
    /\ pc = "running"
    /\ Cardinality(Holders) = CONCURRENT_LIMIT
    /\ \E e \in Ids : task[e].st = "waiting"
    /\ \E e \in Ids : task[e].st = "sleeping"

C4_RetryCap ==
    \A e \in Ids :
        (task[e].st = "done" /\ task[e].only429) =>
            /\ task[e].attempt = MAX_RETRIES
            /\ task[e].rows = <<BaseRow(e, "FAILED_AFTER_RETRIES")>>

C4_Witness == \E e \in Ids : task[e].st = "done" /\ task[e].only429

NumHeaders(f) == Cardinality({i \in 1..Len(f.lines) : f.lines[i].kind = "header"})

\* C5 as stated: a header is written only by the first flush of a run that
\* found no output, never by a run that found one (empty included).
C5_HeaderOnlyWhenNoOutput ==
    /\ \A w \in hdrWrites : w.start = "absent" /\ w.first
    /\ NumHeaders(file) <= 1

\* C5 amended: a header is written only by the first flush of a run that
\* found no output or a zero-byte one, never by a run that found a non-empty
\* output; a file never holds a second header, and the header it holds is
\* its first line; once a run that found no output or a zero-byte one has
\* flushed, the file holds exactly one header.
C5_HeaderOnce ==
    /\ \A w \in hdrWrites : w.start \in {"absent", "empty"} /\ w.first
    /\ Cardinality(hdrWrites) <= 1
    /\ \A i \in 1..Len(file.lines) : file.lines[i].kind = "header" => i = 1
    /\ (pc \in {"running", "complete"} /\ flushes > 0
          /\ FileKind(startFile) \in {"absent", "empty"}) => NumHeaders(file) = 1

\* the header was written by a run that found a zero-byte output, and a
\* later run appended to that output and completed
C5_Witness ==
    /\ hdrWrites = {[start |-> "empty", first |-> TRUE]}
    /\ pc = "complete"
    /\ FileKind(startFile) = "readable"
    /\ flushes > 0

\* C6: in a run that completes every row a fetch operation returned is in the
\* output exactly once more than before the run, and the run added no other
\* data row.
C6_RowsWrittenOnce ==
    (pc = "complete") =>
        /\ \A r \in Produced : Occurrences(file, r) = Occurrences(startFile, r) + 1
        /\ Cardinality(RowIdx(file)) = Cardinality(RowIdx(startFile)) + Cardinality(Produced)

\* a run completed after a threshold flush and a flush of the last, partial
\* buffer
C6_Witness ==
    /\ pc = "complete"
    /\ flushes >= 2
    /\ Cardinality(Produced) > SAVE_EVERY

AddedIds ==
    {file.lines[i].oid : i \in {j \in RowIdx(file) : j > Len(startFile.lines)}}

C9_TolerantResume ==
    /\ (pc = "running" /\ FileKind(startFile) # "readable") =>
          /\ processed_ids = {}
          /\ parcels_to_do = df_input
    /\ (pc = "exited") => FileKind(startFile) = "readable"

\* a run is under way on an unreadable output that holds a row
C9_Witness ==
    /\ pc = "running"
    /\ FileKind(startFile) = "unreadable"
    /\ IdsInFile(startFile) # {}
    /\ Requested # {}

\* C10: no two records of the saved entity file have the same
\* parcel_objectid.
C10_UniqueObjectId ==
    (tpc = "saved") =>
        \A i, j \in 1..Len(entityFile.rows) :
            (i # j) => entityFile.rows[i].parcel_objectid # entityFile.rows[j].parcel_objectid

AllTilesDone == \A i \in 1..Len(tiles) : tstate[i] = "done"

\* C11: a tile whose request ends with a status that is not 200, a timeout
\* or a payload that does not decode contributes no feature and does not
\* end the script: whatever subset of the tiles fails, once every tile has
\* been processed the save step can run, and the saved entity file exists
\* after every tile was processed.
C11_TileFailureIsolated ==
    /\ tpc # "aborted"
    /\ \A i \in 1..Len(tiles) : tfailed[i] => results[i] = <<>>
    /\ (tpc = "mapping" /\ AllTilesDone) => ENABLED SaveEntities
    /\ (tpc = "saved") => (AllTilesDone /\ entityFile.exists)

\* every tile of a grid of several tiles failed and the (empty) entity file
\* was written
C11_Witness ==
    /\ tpc = "saved"
    /\ Len(tiles) > 2
    /\ \A i \in 1..Len(tiles) : tfailed[i]
    /\ entityFile.exists
    /\ entityFile.rows = <<>>

\* C12: tile_coords_to_lonlat, applied to the tile and the pixel offset
\* (from the top-left corner of the tile) that the forward projection
\* assigns to a position, returns that position.
C12_RoundTrip == (ppc = "inverse") => (inverse = position)

\* status of a returned row
StatusOf(r) == r["api_status"].s
LastRow == generated_rows[Len(generated_rows)]
\* the call returned from an attempt that mapped a whole result list
Succeeded ==
    /\ fpc = "returned"
    /\ response.code = "200" /\ response.body = "list" /\ response.data # <<>>
    /\ \A i \in 1..Len(response.data) : response.data[i].dict
\* the rows that attempt appended
SuccessRowsReturned ==
    SubSeq(generated_rows, Len(generated_rows) - Len(response.data) + 1,
           Len(generated_rows))

\* C13: in the row made of an element of a successful result list, every
\* key that is no output column (id counting as rule_id) is, with its value,
\* in the serialized extra_data, and every key that is an output column has
\* its value in that column: none is lost or overwritten.
C13_EveryKeyKept ==
    Succeeded =>
        \A i \in 1..Len(response.data) :
            LET info == response.data[i]
                r == SuccessRowsReturned[i]
            IN \A n \in 1..Len(info.items) :
                 LET key == info.items[n][1]
                     value == info.items[n][2]
                 IN IF TargetKey(key) \in KNOWN_COLUMNS_SET
                    THEN /\ TargetKey(key) \in DOMAIN r
                         /\ r[TargetKey(key)] = Scalar(value)
                    ELSE /\ "extra_data" \in DOMAIN r
                         /\ <<key, value>> \in JsonLoads(r["extra_data"])

\* the values from a to b or from b to a, both included
Between(a, b) == {v \in 0..(a + b) : (a <= v /\ v <= b) \/ (b <= v /\ v <= a)}
Distance(a, b) == IF a <= b THEN b - a ELSE a - b

\* C14: the grid built from the two corner tiles is the rectangle between
\* the smaller and the larger tile index of each axis, both included: it is
\* not empty, it has (x_max-x_min+1)*(y_max-y_min+1) tiles, no tile occurs
\* twice, and the corners with north and south (or east and west) swapped
\* give the same set of tiles.
C14_GridIsRectangle ==
    (tpc # "start") =>
        LET a == lonlat_to_tile(bbox.nw)
            b == lonlat_to_tile(bbox.se)
        IN /\ Len(tiles) >= 1
           /\ Len(tiles) = (Distance(a[1], b[1]) + 1) * (Distance(a[2], b[2]) + 1)
           /\ \A i, j \in 1..Len(tiles) : (i # j) => tiles[i] # tiles[j]
           /\ Range(tiles) = Between(a[1], b[1]) \X Between(a[2], b[2])
           /\ Range(tiles) = Range(TileGrid(<<bbox.nw[1], bbox.se[2]>>,
                                            <<bbox.se[1], bbox.nw[2]>>))
           /\ Range(tiles) = Range(TileGrid(<<bbox.se[1], bbox.nw[2]>>,
                                            <<bbox.nw[1], bbox.se[2]>>))

\* the grid of a bounding box whose corners are swapped on both axes and lie
\* in different tiles
C14_Witness ==
    /\ tpc # "start"
    /\ bbox.nw[1] > bbox.se[1]
    /\ bbox.nw[2] > bbox.se[2]
    /\ Len(tiles) = 4

\* C15: an attempt that receives HTTP 200 ends the call on that attempt,
\* with the status SUCCESS, NO_DATA_IN_LIST or JSON_ERROR; no request
\* follows it, whatever the parsed body is.
C15_Http200IsTerminal ==
    (response.code = "200") =>
        /\ fpc = "returned"
        /\ StatusOf(LastRow) \in {"SUCCESS", "NO_DATA_IN_LIST", "JSON_ERROR"}

\* the attempt ended with a status other than 200, 404 and 429, with a
\* timeout or with a connection fault
Transient(r) ==
    \/ r.code \in {"other", "exception"}
    \/ r.code = "200" /\ r.body = "read_timeout"

\* C16: an attempt that ends with another HTTP status, a timeout or a
\* connection fault, wherever in the attempt, is followed by the sleep of
\* one second and, while attempts remain, by the next attempt; the call
\* returns after such an attempt only when it was attempt MAX_RETRIES, with
\* FAILED_AFTER_RETRIES.
C16_TransientIsRetried ==
    Transient(response) =>
        \/ fpc = "sleep" /\ slept = 1
        \/ /\ fpc = "returned"
           /\ fattempt = MAX_RETRIES
           /\ StatusOf(LastRow) = "FAILED_AFTER_RETRIES"

\* C17: an attempt that receives HTTP 404, the first or a later one, ends
\* the call at once, and the call returns exactly one row, of status
\* NOT_FOUND.
C17_NotFoundIsTerminal ==
    (response.code = "404") =>
        /\ fpc = "returned"
        /\ Len(generated_rows) = 1
        /\ StatusOf(generated_rows[1]) = "NOT_FOUND"

\* the run is over: every candidate's fetch operation has finished and was
\* consumed, and its rows, buffered or not, are in the output
RunEnded ==
    /\ pc = "complete"
    /\ done = <<>>
    /\ Range(results_buffer) \subseteq Range(file.lines)
    /\ \A c \in Candidates :
          /\ task[c].st = "consumed"
          /\ Range(task[c].rows) \subseteq Range(file.lines)

\* C18: when every request is answered or raises, no fetch operation makes
\* more than MAX_RETRIES attempts, and under the scheduling of the event
\* loop a run that has work to do ends: every candidate gets a semaphore
\* slot, finishes and is consumed, and when the run ends the rows of every
\* candidate, those of the last partial buffer included, are in the output.
C18_RunTerminatesFlushed ==
    /\ [](\A e \in Ids : task[e].attempt <= MAX_RETRIES)
    /\ (pc = "running") ~> RunEnded

\* a run of two candidates ended with two flushes, the second of which
\* wrote a buffer shorter than SAVE_EVERY
C18_Witness ==
    /\ RunEnded
    /\ flushes = 2
    /\ \E c \in Candidates :
          /\ Len(task[c].rows) < SAVE_EVERY
          /\ file.lines[Len(file.lines)] = task[c].rows[Len(task[c].rows)]
          /\ \A d \in Candidates \ {c} : Len(task[d].rows) >= SAVE_EVERY

\* C19: the rows a call returns all carry the same api_status; there is
\* exactly one row unless the status is SUCCESS, and then one row per
\* element of the result list of the attempt that succeeded.
C19_SingleOutcome ==
    (fpc = "returned") =>
        /\ \A i \in 1..Len(generated_rows) : StatusOf(generated_rows[i]) = StatusOf(LastRow)
        /\ Len(generated_rows) =
              IF StatusOf(LastRow) = "SUCCESS" THEN Len(response.data) ELSE 1

\* C20: every row a call returns carries the parcel_objectid, parcel_id, lon
\* and lat of its input row.
C20_IdentityKept ==
    (fpc = "returned") =>
        \A i \in 1..Len(generated_rows) :
            \A k \in {"parcel_objectid", "parcel_id", "lon", "lat"} :
                generated_rows[i][k] = row[k]
====
